---- MODULE Spec2Model ----
(***************************************************************************)
(* A model of neuralforecast's ragged time-series store                    *)
(* (tsdataset.py: TimeSeriesDataset) and of the normalisation / windowing  *)
(* steps of the recurrent base model (common/_base_recurrent.py).          *)
(*                                                                         *)
(* Python indices are 0-based, TLA+ sequences 1-based: a Python array a    *)
(* is the sequence whose element k+1 is a[k].                              *)
(***************************************************************************)
EXTENDS Integers, Sequences, FiniteSets, TLC

\* ------------------------------------------------------------------ bounds
\* Largest number of groups (series) of a data frame handed to from_df.
MaxGroups == 2
\* Longest series of a data frame handed to from_df.
MaxLen == 3
\* Number of store objects one behaviour creates.
MaxStores == 3
\* Largest left_trim / right_trim passed to trim_dataset.
MaxTrim == 1

\* Widest batch (time steps) handed to the recurrent model.
MaxT == 4
\* Largest number of items of a batch.
MaxBatch == 2
\* Largest horizon h of the recurrent model.
MaxH == 2
\* Largest val_size and largest test_size passed to fit.
MaxHold == 1
\* Largest positive input_size and inference_input_size of the model.
MaxInputSize == 2
\* Largest random seed given to the constructor or to fit.
MaxSeed == 2
\* Most draws taken from numpy's generator between two seedings.
MaxDraws == 2
\* Most entries of train_trajectories and of validation_step_outputs.
MaxTraj == 2
\* Largest test_size given to set_test_size.
MaxTestSize == 2
\* Most entries of valid_trajectories.
MaxEpochs == 2

VARIABLES
    heap,    \* the TimeSeriesDataset objects created so far, by object id
    bufs,    \* the temporal tensors created so far, by buffer id
    prov,    \* history: how each store object was made
    last,    \* history: the last call, its arguments and its outcome
    model,   \* the BaseRecurrent object: its configuration and fit arguments
    batch,   \* the batch the loader handed to the current step
    call,    \* history: the last call on the model, its inputs and outcome
    rng      \* the process-wide generators: the seed each was last given

svars == <<heap, bufs, prov, last>>
rvars == <<model, batch, call, rng>>
vars == <<heap, bufs, prov, last, model, batch, call, rng>>

\* ------------------------------------------------------- python helpers
\* An optional value: None is the empty tuple, Some(x) the tuple of x alone.
None == <<>>
Some(x) == <<x>>

RECURSIVE SumSeq(_)
SumSeq(s) == IF s = <<>> THEN 0 ELSE Head(s) + SumSeq(Tail(s))

RECURSIVE Flatten(_)
Flatten(ss) == IF ss = <<>> THEN <<>> ELSE Head(ss) \o Flatten(Tail(ss))

MaxOf(s) == CHOOSE x \in {s[k] : k \in DOMAIN s} : \A k \in DOMAIN s : s[k] <= x
MinOf(s) == CHOOSE x \in {s[k] : k \in DOMAIN s} : \A k \in DOMAIN s : x <= s[k]

\* A slice bound of Python: negative counts from the end, then clamped.
SliceBound(i, n) == IF i < 0 THEN (IF i + n < 0 THEN 0 ELSE i + n)
                    ELSE (IF i > n THEN n ELSE i)

\* a[start:stop] of Python (step 1), on the 1-based sequence a.
PySlice(a, start, stop) ==
    LET lo == SliceBound(start, Len(a))
        hi == SliceBound(stop, Len(a))
    IN  IF lo >= hi THEN <<>> ELSE SubSeq(a, lo + 1, hi)

\* Whether k is a valid integer index of an array of n elements, and the
\* element numpy/torch then read (negative k counts from the end).
ValidIndex(k, n) == -n <= k /\ k < n
PyIndex(a, k) == IF k < 0 THEN a[k + Len(a) + 1] ELSE a[k + 1]

\* np.diff and np.append(0, x.cumsum()).
Diff(ip) == [k \in 1..(Len(ip) - 1) |-> ip[k + 1] - ip[k]]
CumSum0(sizes) == [k \in 1..(Len(sizes) + 1) |-> SumSeq(SubSeq(sizes, 1, k - 1))]

\* ------------------------------------------------------------ the store
temporal_cols == <<"y", "available_mask">>
NCols == Len(temporal_cols)

\* The rows of store object s (its temporal tensor), read through the heap.
Rows(bs, s) == bs[s.temporal]

\* temporal[indptr[i]:indptr[i+1], :] for a group i in [0, n_groups).
Series(bs, s, i) == PySlice(Rows(bs, s), s.indptr[i + 1], s.indptr[i + 2])

\* TimeSeriesDataset.__init__: torch.tensor(temporal) copies the data into a
\* tensor of the new object's own; AllocTemporalShared is the variant that
\* keeps writing into the newest existing tensor instead.
AllocTemporalShared(bs, rows) ==
    IF bs = <<>> THEN <<rows>> ELSE [bs EXCEPT ![Len(bs)] = rows]

AllocTemporal(bs, rows) == Append(bs, rows)

NewDataset(bs, rows, ip, maxs, mins, st) ==
    LET nb == AllocTemporal(bs, rows)
    IN  [bufs |-> nb,
         obj  |-> [temporal |-> Len(nb), temporal_cols |-> temporal_cols,
                   indptr |-> ip, n_groups |-> Len(ip) - 1,
                   max_size |-> maxs, min_size |-> mins, static |-> st]]

\* ------------------------------------------------------------- from_df
\* The data frame: group g (0-based) has lens[g+1] rows; the value of y at
\* row t of group g is a tag unique in the behaviour (the store never reads
\* a value, it only moves rows), and no available_mask column is given, so
\* from_df appends one of ones.  tag is the id of the object being built.
DfRows(lens, tag) ==
    Flatten([g \in 1..Len(lens) |->
                [t \in 1..lens[g] |-> <<100 * tag + 10 * g + t, 1>>]])

DfStatic(lens, withStatic) ==
    IF withStatic THEN Some([g \in 1..Len(lens) |-> <<1000 + g>>]) ELSE None

from_df(bs, lens, tag, withStatic) ==
    LET indptr == CumSum0(lens)
        sizes  == Diff(indptr)
    IN  NewDataset(bs, DfRows(lens, tag), indptr, MaxOf(sizes), MinOf(sizes),
                   DfStatic(lens, withStatic))

\* ---------------------------------------------------- tensor assignment
\* The outcome of building a tensor: ok with its rows, or a shape error.
Built(rows) == [ok |-> TRUE, rows |-> rows]
ShapeError == [ok |-> FALSE, rows |-> <<>>]

\* dest[start:stop] = src on the leading axis, as torch does it: the shapes
\* must agree, except that a single source row is broadcast.
AssignRows(d, start, stop, src) ==
    IF ~d.ok THEN ShapeError
    ELSE LET dest == d.rows
             lo == SliceBound(start, Len(dest))
             hi == SliceBound(stop, Len(dest))
             w  == IF hi > lo THEN hi - lo ELSE 0
         IN  IF Len(src) = w
             THEN Built([k \in 1..Len(dest) |->
                          IF lo < k /\ k <= hi THEN src[k - lo] ELSE dest[k]])
             ELSE IF Len(src) = 1
             THEN Built([k \in 1..Len(dest) |->
                          IF lo < k /\ k <= hi THEN src[1] ELSE dest[k]])
             ELSE ShapeError

\* A row of torch.empty: whatever the allocator left there.
Uninit == <<-1, -1>>
ZeroRow == [c \in 1..NCols |-> 0]

\* -------------------------------------------------------------- append
\* The loop of append over groups i = from .. n_groups-1, filling new_temporal.
RECURSIVE AppendFill(_, _, _, _, _, _)
AppendFill(d, bs, self, futr, new_indptr, i) ==
    IF i >= self.n_groups THEN d
    ELSE LET cstart == self.indptr[i + 1]
             cstop  == self.indptr[i + 2]
             curr_size == cstop - cstart
             d1 == AssignRows(d, new_indptr[i + 1], new_indptr[i + 1] + curr_size,
                              PySlice(Rows(bs, self), cstart, cstop))
             d2 == AssignRows(d1, new_indptr[i + 1] + curr_size, new_indptr[i + 2],
                              PySlice(Rows(bs, futr), futr.indptr[i + 1],
                                      futr.indptr[i + 2]))
         IN  AppendFill(d2, bs, self, futr, new_indptr, i + 1)

\* new_max_size = np.max(new_sizes); NewMaxSizeStale keeps the cached value of
\* self instead (what append does for min_size).
NewMaxSizeStale(self, new_sizes) == self.max_size

NewMaxSize(self, new_sizes) == MaxOf(new_sizes)

\* self.append(futr_dataset): [out, bufs, obj].
append(bs, self, futr) ==
    IF Len(self.indptr) # Len(futr.indptr)
    THEN [out |-> "ValueError", bufs |-> bs, obj |-> self]
    ELSE LET len_temporal == Len(Rows(bs, self))
             len_futr == Len(Rows(bs, futr))
             empty == Built([k \in 1..(len_temporal + len_futr) |-> Uninit])
             new_sizes == [k \in DOMAIN Diff(self.indptr) |->
                             Diff(self.indptr)[k] + Diff(futr.indptr)[k]]
             new_indptr == CumSum0(new_sizes)
             new_max_size == NewMaxSize(self, new_sizes)
             new_temporal == AppendFill(empty, bs, self, futr, new_indptr, 0)
         IN  IF ~new_temporal.ok
             THEN [out |-> "RuntimeError", bufs |-> bs, obj |-> self]
             ELSE LET nd == NewDataset(bs, new_temporal.rows, new_indptr,
                                       new_max_size, self.min_size, self.static)
                  IN  [out |-> "ok", bufs |-> nd.bufs, obj |-> nd.obj]

\* -------------------------------------------------------- trim_dataset
\* The rows kept of a series stored at [start, stop): the slice
\* [indptr[i] + left_trim : indptr[i+1] - right_trim].  TrimSliceSwapped cuts
\* right_trim rows at the front and left_trim rows at the back.
TrimSliceSwapped(start, stop, left_trim, right_trim) ==
    <<start + right_trim, stop - left_trim>>

TrimSlice(start, stop, left_trim, right_trim) ==
    <<start + left_trim, stop - right_trim>>

\* The loop of trim_dataset: [d, acum, new_indptr] after groups from .. n-1.
RECURSIVE TrimFill(_, _, _, _, _, _, _, _)
TrimFill(d, acum, new_indptr, bs, dataset, left_trim, right_trim, i) ==
    IF i >= dataset.n_groups THEN [d |-> d, new_indptr |-> new_indptr]
    ELSE LET series_length == dataset.indptr[i + 2] - dataset.indptr[i + 1]
             new_length == series_length - left_trim - right_trim
             sl == TrimSlice(dataset.indptr[i + 1], dataset.indptr[i + 2],
                             left_trim, right_trim)
             d1 == AssignRows(d, acum, acum + new_length,
                              PySlice(Rows(bs, dataset), sl[1], sl[2]))
         IN  TrimFill(d1, acum + new_length, Append(new_indptr, acum + new_length),
                      bs, dataset, left_trim, right_trim, i + 1)

\* The guard of trim_dataset: the trim is refused.
TrimRefusedStrict(dataset, left_trim, right_trim) ==
    dataset.min_size < left_trim + right_trim

TrimRefused(dataset, left_trim, right_trim) ==
    dataset.min_size <= left_trim + right_trim

\* TimeSeriesDataset.trim_dataset(dataset, left_trim, right_trim).
trim_dataset(bs, dataset, left_trim, right_trim) ==
    IF TrimRefused(dataset, left_trim, right_trim)
    THEN [out |-> "Exception", bufs |-> bs, obj |-> dataset]
    ELSE LET len_temporal == Len(Rows(bs, dataset))
             total_trim == (left_trim + right_trim) * dataset.n_groups
             zeros == IF len_temporal - total_trim < 0 THEN ShapeError
                      ELSE Built([k \in 1..(len_temporal - total_trim) |-> ZeroRow])
             f == TrimFill(zeros, 0, <<0>>, bs, dataset, left_trim, right_trim, 0)
             new_max_size == dataset.max_size - left_trim - right_trim
             new_min_size == dataset.min_size - left_trim - right_trim
         IN  IF ~f.d.ok
             THEN [out |-> "RuntimeError", bufs |-> bs, obj |-> dataset]
             ELSE LET nd == NewDataset(bs, f.d.rows, f.new_indptr, new_max_size,
                                       new_min_size, dataset.static)
                  IN  [out |-> "ok", bufs |-> nd.bufs, obj |-> nd.obj]

\* --------------------------------------------------------- __getitem__
\* The time slice written by temporal[:, -len(ts):] = ...: [start, stop] with
\* stop = None (the end).  PadSliceLeft is the left-aligned variant.
PadSliceLeft(len_ts, width) == <<0, len_ts>>

PadSlice(len_ts, width) == <<-len_ts, width>>

NoItem == [temporal |-> <<>>, temporal_cols |-> <<>>, static |-> None]

\* dataset[idx] for an int idx: [out, item].
GetItem(bs, s, idx) ==
    IF ~ValidIndex(idx, Len(s.indptr)) \/ ~ValidIndex(idx + 1, Len(s.indptr))
    THEN [out |-> "IndexError", item |-> NoItem]
    ELSE LET ts == PySlice(Rows(bs, s), PyIndex(s.indptr, idx),
                           PyIndex(s.indptr, idx + 1))
             sl == PadSlice(Len(ts), s.max_size)
             lo == SliceBound(sl[1], s.max_size)
             hi == SliceBound(sl[2], s.max_size)
             w  == IF hi > lo THEN hi - lo ELSE 0
             \* ts.permute(1, 0)[c][j], broadcast along time when len(ts) = 1
             src(c, j) == IF Len(ts) = 1 THEN ts[1][c] ELSE ts[j][c]
             temporal == [c \in 1..Len(s.temporal_cols) |->
                            [t \in 1..s.max_size |->
                               IF lo < t /\ t <= hi THEN src(c, t - lo) ELSE 0]]
         IN  IF Len(ts) # w /\ Len(ts) # 1
             THEN [out |-> "RuntimeError", item |-> NoItem]
             ELSE IF s.static # None /\ ~ValidIndex(idx, Len(s.static[1]))
             THEN [out |-> "IndexError", item |-> NoItem]
             ELSE [out |-> "ok",
                   item |-> [temporal |-> temporal,
                             temporal_cols |-> s.temporal_cols,
                             static |-> IF s.static = None THEN None
                                        ELSE Some(PyIndex(s.static[1], idx))]]

\* ------------------------------------------------------------- actions
NoCall == [op |-> "none", self |-> 0, other |-> 0, left |-> 0, right |-> 0,
           idx |-> 0, out |-> "ok", res |-> 0, item |-> NoItem]

\* No store has been built.
NoStores ==
    /\ heap = <<>>
    /\ bufs = <<>>
    /\ prov = <<>>
    /\ last = NoCall

\* No recurrent model has been constructed.
NoModel == [h |-> 0, input_size |-> 0, val_size |-> 0, test_size |-> 0,
            hist_exog_list |-> <<>>, futr_exog_list |-> <<>>,
            inference_input_size |-> 0, stat_exog_list |-> <<>>,
            random_seed |-> 0, distribution |-> FALSE,
            train_trajectories |-> <<>>, validation_step_outputs |-> <<>>,
            valid_trajectories |-> <<>>, output_names |-> <<>>]
NoBatch == [temporal |-> <<>>, temporal_cols |-> <<>>, normalized |-> FALSE,
            static |-> None, static_cols |-> None]
\* What the last call on the model left: its outcome, the batch it was given
\* and, by operation, the scaler's mask, the window batch, the parsed
\* tensors, the arguments of the loss and the seed passed to fit.
NoDict == [temporal_cols |-> <<>>, static |-> None, static_cols |-> None]
\* No loss was evaluated.
NoLoss == [value |-> "none", y |-> <<>>, mask |-> <<>>, y_hat |-> <<>>]
NoStep == [op |-> "none", out |-> "ok", before |-> NoBatch, mask |-> <<>>,
           windows |-> <<>>, min_time_stamp |-> 0, start |-> 0,
           n_windows |-> 0, choices |-> {0}, dict |-> NoDict,
           parsed |-> <<>>, loss |-> NoLoss, random_seed |-> None,
           rng |-> <<>>, returned |-> None, drew |-> FALSE,
           fcsts |-> <<>>, global_step |-> 0]
\* The generators as the interpreter starts them: not seeded by the program.
\* torch and numpy: the seed last given; draws: the draws from numpy's
\* generator since; fit_draws (history): those of them since fit started.
NoRng == [torch |-> 0, numpy |-> 0, draws |-> 0, fit_draws |-> None]

Init ==
    /\ NoStores
    /\ model = NoModel
    /\ batch = NoBatch
    /\ call = NoStep
    /\ rng = NoRng

\* Whether from_df is given a static_df: the caller's choice at the first
\* call, and the same at every later one.
StaticChoices == IF heap = <<>> THEN BOOLEAN ELSE {heap[1].static # None}

\* TimeSeriesDataset.from_df(df): a new store from a data frame.
FromDf ==
    /\ Len(heap) < MaxStores
    /\ \E n \in 1..MaxGroups : \E lens \in [1..n -> 1..MaxLen] :
       \E withStatic \in StaticChoices :
         LET nd == from_df(bufs, lens, Len(heap) + 1, withStatic)
         IN  /\ heap' = Append(heap, nd.obj)
             /\ bufs' = nd.bufs
             /\ prov' = Append(prov, [op |-> "from_df", a |-> 0, b |-> 0,
                                      left |-> 0, right |-> 0])
             /\ last' = [NoCall EXCEPT !.op = "from_df", !.res = Len(heap) + 1]
    /\ UNCHANGED rvars

\* heap[i].append(heap[j]).
AppendCall ==
    /\ \E i \in DOMAIN heap : \E j \in DOMAIN heap :
         LET r == append(bufs, heap[i], heap[j])
         IN  IF r.out = "ok"
             THEN /\ Len(heap) < MaxStores
                  /\ heap' = Append(heap, r.obj)
                  /\ bufs' = r.bufs
                  /\ prov' = Append(prov, [op |-> "append", a |-> i, b |-> j,
                                           left |-> 0, right |-> 0])
                  /\ last' = [NoCall EXCEPT !.op = "append", !.self = i,
                                            !.other = j, !.res = Len(heap) + 1]
             ELSE /\ UNCHANGED <<heap, bufs, prov>>
                  /\ last' = [NoCall EXCEPT !.op = "append", !.self = i,
                                            !.other = j, !.out = r.out]
    /\ UNCHANGED rvars

\* TimeSeriesDataset.trim_dataset(heap[i], left_trim, right_trim).
TrimCall ==
    /\ \E i \in DOMAIN heap : \E l \in 0..MaxTrim : \E r \in 0..MaxTrim :
         LET t == trim_dataset(bufs, heap[i], l, r)
         IN  IF t.out = "ok"
             THEN /\ Len(heap) < MaxStores
                  /\ heap' = Append(heap, t.obj)
                  /\ bufs' = t.bufs
                  /\ prov' = Append(prov, [op |-> "trim", a |-> i, b |-> 0,
                                           left |-> l, right |-> r])
                  /\ last' = [NoCall EXCEPT !.op = "trim", !.self = i, !.left = l,
                                            !.right = r, !.res = Len(heap) + 1]
             ELSE /\ UNCHANGED <<heap, bufs, prov>>
                  /\ last' = [NoCall EXCEPT !.op = "trim", !.self = i, !.left = l,
                                            !.right = r, !.out = t.out]
    /\ UNCHANGED rvars

\* heap[i][idx], idx any int around the valid range.
GetItemCall ==
    /\ \E i \in DOMAIN heap : \E idx \in (-(MaxGroups + 2))..(MaxGroups + 1) :
         LET g == GetItem(bufs, heap[i], idx)
         IN  last' = [NoCall EXCEPT !.op = "getitem", !.self = i, !.idx = idx,
                                   !.out = g.out, !.item = g.item]
    /\ UNCHANGED <<heap, bufs, prov>>
    /\ UNCHANGED rvars

Next == FromDf \/ AppendCall \/ TrimCall \/ GetItemCall

Spec == Init /\ [][Next]_vars

\* ----------------------------------------------------------- the claims
\* The per-series lengths diff(indptr) of a store, and its groups.
Sizes(s) == Diff(s.indptr)
Groups(s) == 0..(s.n_groups - 1)

\* C1 (as stated): in every store reached by from_df / append / trim_dataset
\* the cached max_size is the maximum and the cached min_size the minimum of
\* the per-series lengths diff(indptr).
C1_CachedSizesMatchIndptr ==
    \A k \in DOMAIN heap :
        /\ heap[k].max_size = MaxOf(Sizes(heap[k]))
        /\ heap[k].min_size = MinOf(Sizes(heap[k]))

\* The last call trimmed, by (0, k), a store made by S.append(F) where every
\* group of F has the same length k >= 1.
TrimOfUniformAppend ==
    /\ last.op = "trim"
    /\ prov[last.self].op = "append"
    /\ last.left = 0
    /\ last.right >= 1
    /\ \A g \in DOMAIN Sizes(heap[prov[last.self].b]) :
           Sizes(heap[prov[last.self].b])[g] = last.right

\* C2 (as stated): trim_dataset(S.append(F), 0, k), with every group of F of
\* length k, succeeds and returns the temporal data and indptr of S.
C2_AppendThenTrimRecovers ==
    TrimOfUniformAppend =>
        /\ last.out = "ok"
        /\ last.res \in DOMAIN heap
        /\ Rows(bufs, heap[last.res]) = Rows(bufs, heap[prov[last.self].a])
        /\ heap[last.res].indptr = heap[prov[last.self].a].indptr

\* C3: for i in [0, n_groups), __getitem__(i) returns a buffer of channel
\* count x max_size whose rightmost length(i) columns are series i, channel
\* major and in time order, and whose leading columns are zero.
C3_GetItemLeftPads ==
    (last.op = "getitem" /\ last.idx \in Groups(heap[last.self])) =>
        LET s   == heap[last.self]
            ser == Series(bufs, s, last.idx)
            pad == s.max_size - Len(ser)
            tmp == last.item.temporal
        IN  /\ last.out = "ok"
            /\ Len(ser) = Sizes(s)[last.idx + 1]
            /\ Len(tmp) = NCols
            /\ \A c \in 1..NCols :
                 /\ Len(tmp[c]) = s.max_size
                 /\ \A t \in 1..s.max_size :
                      tmp[c][t] = IF t <= pad THEN 0 ELSE ser[t - pad][c]

\* C3's case: an item of a series of two or more steps, shorter than the
\* longest series of its store.
C3_Witness ==
    /\ last.op = "getitem"
    /\ last.out = "ok"
    /\ last.idx \in Groups(heap[last.self])
    /\ Sizes(heap[last.self])[last.idx + 1] >= 2
    /\ Sizes(heap[last.self])[last.idx + 1] < heap[last.self].max_size

\* C4 (as stated): __getitem__(i) fails with an index error for every i
\* outside [0, n_groups) and returns no item.
C4_OutOfRangeIsIndexError ==
    (last.op = "getitem" /\ last.idx \notin Groups(heap[last.self])) =>
        last.out = "IndexError"

\* C5: every store has indptr[0] = 0, indptr non-decreasing, indptr[n_groups]
\* the number of rows of temporal, and every series of length >= 1.
C5_IndptrWellFormed ==
    \A k \in DOMAIN heap :
        LET s == heap[k]
        IN  /\ s.indptr[1] = 0
            /\ \A g \in 1..s.n_groups : s.indptr[g] <= s.indptr[g + 1]
            /\ s.indptr[s.n_groups + 1] = Len(Rows(bufs, s))
            /\ \A g \in 1..s.n_groups : Sizes(s)[g] >= 1

\* C5's case: an accepted trim that cut something off a store made by append.
C5_Witness ==
    \E k \in DOMAIN heap :
        /\ prov[k].op = "trim"
        /\ prov[k].left + prov[k].right > 0
        /\ prov[prov[k].a].op = "append"

\* C6: with equal group counts S.append(F) returns a store whose series i is
\* S's series i followed by F's series i, whose indptr is the prefix sum of
\* the summed lengths and whose max_size is their maximum; with different
\* group counts it fails and returns no store.
C6_AppendConcatenates ==
    last.op = "append" =>
        LET S == heap[last.self]
            F == heap[last.other]
        IN  IF S.n_groups = F.n_groups
            THEN /\ last.out = "ok"
                 /\ last.res \in DOMAIN heap
                 /\ LET R    == heap[last.res]
                        sums == [g \in 1..S.n_groups |-> Sizes(S)[g] + Sizes(F)[g]]
                    IN  /\ R.n_groups = S.n_groups
                        /\ R.indptr = CumSum0(sums)
                        /\ R.max_size = MaxOf(sums)
                        /\ Len(Rows(bufs, R)) = Len(Rows(bufs, S)) + Len(Rows(bufs, F))
                        /\ \A i \in Groups(S) :
                             Series(bufs, R, i) =
                                 Series(bufs, S, i) \o Series(bufs, F, i)
            ELSE /\ last.out = "ValueError"
                 /\ last.res = 0

\* C6's case: two different stores of two groups with unequal lengths appended.
C6_Witness ==
    /\ last.op = "append"
    /\ last.out = "ok"
    /\ last.self # last.other
    /\ heap[last.self].n_groups = 2
    /\ Sizes(heap[last.self]) # Sizes(heap[last.other])
    /\ Sizes(heap[last.res])[1] # Sizes(heap[last.res])[2]

\* C7: an accepted trim_dataset(S, left, right) returns, for every group, S's
\* series without its first left and last right steps; the row count drops by
\* (left + right) * n_groups and max_size and min_size by left + right.
C7_TrimCutsEdges ==
    (last.op = "trim" /\ last.out = "ok") =>
        LET S == heap[last.self]
            R == heap[last.res]
            cut == last.left + last.right
        IN  /\ R.n_groups = S.n_groups
            /\ \A i \in Groups(S) :
                 Series(bufs, R, i) =
                     SubSeq(Series(bufs, S, i), last.left + 1,
                            Len(Series(bufs, S, i)) - last.right)
            /\ Len(Rows(bufs, R)) = Len(Rows(bufs, S)) - cut * S.n_groups
            /\ R.max_size = S.max_size - cut
            /\ R.min_size = S.min_size - cut

\* C7's case: a trim on both sides, by different amounts over the run, of a
\* store of two series of different lengths.
C7_Witness ==
    /\ last.op = "trim"
    /\ last.out = "ok"
    /\ last.left = 1
    /\ last.right = 0
    /\ heap[last.self].n_groups = 2
    /\ heap[last.self].max_size > heap[last.self].min_size

\* C8: no call changes a store that already exists (its fields and the
\* contents of its temporal tensor), and a store returned by append or
\* trim_dataset is a new object with a temporal tensor no other store uses.
C8_StoresNeverModified ==
    [][ /\ \A k \in DOMAIN heap : k \in DOMAIN heap' /\ heap'[k] = heap[k]
        /\ \A b \in DOMAIN bufs : b \in DOMAIN bufs' /\ bufs'[b] = bufs[b]
        /\ \A k \in DOMAIN heap' \ DOMAIN heap :
             \A j \in DOMAIN heap : heap'[k].temporal # heap[j].temporal ]_vars

\* C8's case: append returned a store while an older store is still held.
C8_Witness ==
    /\ last.op = "append"
    /\ last.out = "ok"
    /\ Len(heap) = MaxStores

\* ====================================================== BaseRecurrent
\* A tensor of a batch is indexed [item][channel][time], all from 1.
batch_cols == <<"y", "x1", "available_mask">>

\* pd.Index.get_loc and get_indexer: the position of a channel by its name.
GetLoc(cols, name) == CHOOSE k \in DOMAIN cols : cols[k] = name
GetIndexer(cols, names) == [k \in DOMAIN names |-> GetLoc(cols, names[k])]

\* What the loader stacks for item b: a series of len steps left-padded with
\* zeros to the width T of the store (TimeSeriesDataset.__getitem__), with
\* tagged values of y and x1.  The series' available_mask is one, except that
\* the data frame may mark the observation of item 1 at step hole missing.
static_cols == <<"s1">>

LoaderItem(b, T, len, hole) ==
    [c \in DOMAIN batch_cols |->
        [t \in 1..T |->
            IF t <= T - len THEN 0
            ELSE IF batch_cols[c] = "y" THEN 10 * b + t
            ELSE IF batch_cols[c] = "x1" THEN 50 + 10 * b + t
            ELSE IF b = 1 /\ t = hole THEN 0 ELSE 1]]

\* TimeSeriesLoader._collate_fn: the items stacked along a new leading axis.
\* A batch of a store without static features has no static entries.
Collate(T, lens, hole, withStatic) ==
    [temporal |-> [b \in DOMAIN lens |-> LoaderItem(b, T, lens[b], hole)],
     temporal_cols |-> batch_cols,
     normalized |-> FALSE,
     static |-> IF withStatic
                THEN Some([b \in DOMAIN lens |-> <<900 + b>>]) ELSE None,
     static_cols |-> IF withStatic THEN Some(static_cols) ELSE None]

Width(temporal) == Len(temporal[1][1])

\* ------------------------------------------------------- TemporalNorm
\* The scaler's location of one channel of one item: a statistic (here the
\* minimum) of the values at the steps where the mask is not zero, 0 when
\* there is none; the scale is 1.
Location(x, mask) ==
    LET on == {t \in DOMAIN x : mask[t] # 0}
    IN  IF on = {} THEN 0
        ELSE CHOOSE v \in {x[t] : t \in on} : \A t \in on : v <= x[t]

\* TemporalNorm.transform(x, mask): every step of every channel shifted by
\* the channel's location under the item's mask.
TemporalNormTransform(x, mask) ==
    [b \in DOMAIN x |-> [c \in DOMAIN x[b] |->
        [t \in DOMAIN x[b][c] |-> x[b][c][t] - Location(x[b][c], mask[b])]]]

\* ------------------------------------------------------ _normalization
\* ["y"] + the exogenous names of the model that the batch has.
GetTemporalDataCols(m, cols) ==
    <<"y">> \o SelectSeq(cols, LAMBDA n :
                  \E k \in DOMAIN (m.hist_exog_list \o m.futr_exog_list) :
                      (m.hist_exog_list \o m.futr_exog_list)[k] = n)

\* cutoff = val_size + test_size; CutoffValOnly forgets the test set.
CutoffValOnly(val_size, test_size) == val_size

Cutoff(val_size, test_size) == val_size + test_size

\* temporal_mask[:, -cutoff:] = 0 on a mask indexed [item][time].
ZeroTail(mask, cutoff) ==
    [b \in DOMAIN mask |->
        [t \in DOMAIN mask[b] |->
            IF t > SliceBound(-cutoff, Len(mask[b])) THEN 0 ELSE mask[b][t]]]

\* The available_mask channel of the batch after the tail of temporal_mask
\* was zeroed: temporal_mask is a clone, so the batch keeps its own values;
\* MaskChannelView is what a view of the batch's tensor would leave there.
MaskChannelView(own, zeroed) == zeroed

MaskChannelClone(own, zeroed) == own

\* _normalization(batch, val_size, test_size): [batch, mask], the batch with
\* its temporal tensor rewritten in place and the mask given to the scaler.
Normalize(m, bt, val_size, test_size) ==
    LET temporal == bt.temporal
        temporal_data_cols == GetTemporalDataCols(m, bt.temporal_cols)
        idx == GetIndexer(bt.temporal_cols, temporal_data_cols)
        mask_idx == GetLoc(bt.temporal_cols, "available_mask")
        temporal_data == [b \in DOMAIN temporal |->
                            [k \in DOMAIN idx |-> temporal[b][idx[k]]]]
        own == [b \in DOMAIN temporal |-> temporal[b][mask_idx]]
        temporal_mask == IF val_size + test_size > 0
                         THEN ZeroTail(own, Cutoff(val_size, test_size))
                         ELSE own
        scaled == TemporalNormTransform(temporal_data, temporal_mask)
        written == [b \in DOMAIN temporal |-> [c \in DOMAIN temporal[b] |->
                      IF \E k \in DOMAIN idx : idx[k] = c
                      THEN scaled[b][CHOOSE k \in DOMAIN idx : idx[k] = c]
                      ELSE IF c = mask_idx
                      THEN MaskChannelClone(own[b], temporal_mask[b])
                      ELSE temporal[b][c]]]
    IN  [batch |-> [bt EXCEPT !.temporal = written, !.normalized = TRUE],
         mask |-> temporal_mask]

\* ----------------------------------------------------- _create_windows
\* nn.ConstantPad1d((0, h), 0) on the time axis.
Padder(temporal, h) ==
    [b \in DOMAIN temporal |-> [c \in DOMAIN temporal[b] |->
        temporal[b][c] \o [k \in 1..h |-> 0]]]

\* temporal[:, :, start:stop].
TimeSlice(temporal, start, stop) ==
    [b \in DOMAIN temporal |-> [c \in DOMAIN temporal[b] |->
        PySlice(temporal[b][c], start, stop)]]

\* torch.min(temporal[:, mask], axis=0).values: per step, the smallest mask
\* of the batch.  BatchMaskMax takes the largest instead.
BatchMaskMax(temporal, mask_idx) ==
    [t \in 1..Width(temporal) |->
        CHOOSE v \in {temporal[b][mask_idx][t] : b \in DOMAIN temporal} :
            \A b \in DOMAIN temporal : temporal[b][mask_idx][t] <= v]

BatchMask(temporal, mask_idx) ==
    [t \in 1..Width(temporal) |->
        CHOOSE v \in {temporal[b][mask_idx][t] : b \in DOMAIN temporal} :
            \A b \in DOMAIN temporal : v <= temporal[b][mask_idx][t]]

\* torch.nonzero: the (0-based) indices of the non-zero entries.
NonZero(x) == {t - 1 : t \in {u \in DOMAIN x : x[u] # 0}}
MinSet(S) == CHOOSE v \in S : \A u \in S : v <= u

\* temporal.unfold(dimension=-1, size, step=1): [item][channel][window][k].
Unfold(temporal, size) ==
    [b \in DOMAIN temporal |-> [c \in DOMAIN temporal[b] |->
        [w \in 1..(Width(temporal) - size + 1) |->
            SubSeq(temporal[b][c], w, w + size - 1)]]]

\* windows[:, :, start:stop, :].  WindowSliceInclusive takes the window at
\* stop as well.
WindowSliceInclusive(windows, start, stop) ==
    [b \in DOMAIN windows |-> [c \in DOMAIN windows[b] |->
        PySlice(windows[b][c], start, stop + 1)]]

WindowSlice(windows, start, stop) ==
    [b \in DOMAIN windows |-> [c \in DOMAIN windows[b] |->
        PySlice(windows[b][c], start, stop)]]

NWindows(windows) == Len(windows[1][1])

\* nn.ConstantPad1d((1, 0), 0) on the time axis.
PadderLeft(temporal) ==
    [b \in DOMAIN temporal |-> [c \in DOMAIN temporal[b] |->
        <<0>> \o temporal[b][c]]]

Failed(why) == [out |-> why, windows |-> <<>>, min_time_stamp |-> 0,
                choices |-> {0}, n_windows |-> 0, dict |-> NoDict]

Staged(temporal, min_time_stamp) ==
    [out |-> "ok", temporal |-> temporal, min_time_stamp |-> min_time_stamp]

\* The train branch: the batch without its held-out steps, padded, and cut
\* at the first step every item has.
StageTrain(m, bt) ==
    LET mask_idx == GetLoc(bt.temporal_cols, "available_mask")
        cut == IF m.val_size + m.test_size > 0
               THEN TimeSlice(bt.temporal, 0, -m.val_size - m.test_size)
               ELSE bt.temporal
        padded == Padder(cut, m.h)
        av_condition == NonZero(BatchMask(padded, mask_idx))
    IN  IF av_condition = {}
        THEN [out |-> "RuntimeError", temporal |-> <<>>, min_time_stamp |-> 0]
        ELSE
        LET min_time_stamp == MinSet(av_condition)
            available_ts == Width(padded) - min_time_stamp
        IN  IF available_ts < 1 + m.h
            THEN [out |-> "Exception: too short", temporal |-> <<>>,
                  min_time_stamp |-> 0]
            ELSE Staged(TimeSlice(padded, min_time_stamp, Width(padded)),
                        min_time_stamp)

\* The val branch.
StageVal(m, bt) ==
    Staged(Padder(IF m.test_size > 0
                  THEN TimeSlice(bt.temporal, 0, -m.test_size)
                  ELSE bt.temporal, m.h), 0)

\* Whether the predict branch pads on the left: the width equals test_size.
NeedsLeftPad(width, test_size) == width = test_size

\* The predict branch.
StagePredict(m, bt) ==
    LET padded == IF m.test_size = 0 /\ Len(m.futr_exog_list) = 0
                  THEN Padder(bt.temporal, m.h) ELSE bt.temporal
    IN  Staged(IF NeedsLeftPad(Width(padded), m.test_size)
               THEN PadderLeft(padded) ELSE padded, 0)

\* The windows kept for inference: the last cutoff ones.  InferenceKeepFirst
\* keeps the first cutoff ones instead.
InferenceKeepFirst(windows, cutoff) == WindowSlice(windows, 0, cutoff)

InferenceKeep(windows, cutoff) ==
    WindowSlice(windows, -cutoff, NWindows(windows))

\* The window batch carries the columns and the static entries of the batch.
\* WindowDictNoStatic forgets the static entries.
WindowDictNoStatic(bt) ==
    [temporal_cols |-> bt.temporal_cols, static |-> None, static_cols |-> None]

WindowDict(bt) ==
    [temporal_cols |-> bt.temporal_cols, static |-> bt.static,
     static_cols |-> bt.static_cols]

\* _create_windows(batch, step), with start the value drawn by
\* np.random.choice when the train windows are sub-sampled: [out, windows,
\* min_time_stamp, choices, n_windows, dict], choices being the values the
\* draw can give, n_windows the number of windows unfold gives and dict the
\* other entries of the window batch.  unfold raises a RuntimeError when the
\* tensor is narrower than a window.
CreateWindows(m, bt, step, start) ==
    LET staged == IF step = "train" THEN StageTrain(m, bt)
                  ELSE IF step = "val" THEN StageVal(m, bt)
                  ELSE StagePredict(m, bt)
        window_size == 1 + m.h
    IN  IF staged.out # "ok" THEN Failed(staged.out)
        ELSE IF Width(staged.temporal) < window_size THEN Failed("RuntimeError")
        ELSE
        LET windows == Unfold(staged.temporal, window_size)
            n_windows == NWindows(windows)
            sampled == step = "train" /\ m.input_size > 0
                       /\ n_windows > m.input_size
            drawn == IF sampled
                     THEN WindowSlice(windows, start, start + m.input_size)
                     ELSE windows
            kept == IF step = "val" /\ m.inference_input_size > 0
                    THEN InferenceKeep(drawn,
                                       m.inference_input_size + m.val_size)
                    ELSE IF step = "predict" /\ m.inference_input_size > 0
                    THEN InferenceKeep(drawn,
                                       m.inference_input_size + m.test_size)
                    ELSE drawn
        IN  [out |-> "ok",
             windows |-> kept,
             min_time_stamp |-> staged.min_time_stamp,
             choices |-> IF sampled THEN 0..(n_windows - m.input_size)
                         ELSE {0},
             n_windows |-> n_windows,
             dict |-> WindowDict(bt)]

CreateWindowsTrainStep(m, bt, start) == CreateWindows(m, bt, "train", start)

\* Whether _create_windows(step) draws from numpy's generator.
Draws(m, bt, step) == CreateWindows(m, bt, step, 0).choices # {0}

\* ------------------------------------------------------------- actions
\* BaseRecurrent.__init__: the model as constructed, before any fit.
Construct(h, input_size, inference_input_size, hist_exog_list, futr_exog_list, stat_exog_list, random_seed, distribution) ==
    [h |-> h, input_size |-> input_size, val_size |-> 0, test_size |-> 0,
     hist_exog_list |-> hist_exog_list, futr_exog_list |-> futr_exog_list,
     inference_input_size |-> inference_input_size,
     stat_exog_list |-> stat_exog_list,
     random_seed |-> random_seed, distribution |-> distribution,
     train_trajectories |-> <<>>, validation_step_outputs |-> <<>>,
     valid_trajectories |-> <<>>, output_names |-> <<"">>]

\* The constructor's defaults: no limit at inference, no future or static
\* exogenous names, random_seed 1, a point loss.
Constructed(h, input_size, hist_exog_list) ==
    Construct(h, input_size, -1, hist_exog_list, <<>>, <<>>, 1, FALSE)

\* The input_size arguments: -1 (no limit) or positive.
InputSizes == {-1} \cup 1..MaxInputSize

Seeds == 1..MaxSeed

\* pl.seed_everything(seed) in __init__: every generator seeded.
SeedEverything(seed) ==
    [torch |-> seed, numpy |-> seed, draws |-> 0, fit_draws |-> None]

\* One draw from numpy's generator.
NumpyDraw(g) ==
    [g EXCEPT !.draws = @ + 1,
              !.fit_draws = IF @ = None THEN None ELSE Some(@[1] + 1)]

\* torch.manual_seed(seed).
TorchManualSeed(g, seed) == [g EXCEPT !.torch = seed]

\* The hook the trainer calls when fit starts: torch and numpy seeded with
\* the model's seed.  OnFitStartTorchOnly leaves numpy as it is.
OnFitStartTorchOnly(g, m) == [g EXCEPT !.torch = m.random_seed]

OnFitStart(g, m) ==
    [g EXCEPT !.torch = m.random_seed, !.numpy = m.random_seed, !.draws = 0]

\* fit(dataset, val_size, test_size, random_seed), called between steps:
\* seeds torch with random_seed (the model's when None), stores the sizes,
\* and runs the trainer, which calls on_fit_start before the first step;
\* batches are loaded anew from the data module it builds.
Fit ==
    /\ model # NoModel
    /\ batch = NoBatch
    /\ \E val_size \in 0..MaxHold : \E test_size \in 0..MaxHold :
         model' = [model EXCEPT !.val_size = val_size, !.test_size = test_size]
    /\ \E random_seed \in {None} \cup {Some(sd) : sd \in Seeds} :
         LET seed == IF random_seed = None THEN model.random_seed
                     ELSE random_seed[1]
         IN  /\ rng' = [OnFitStart(TorchManualSeed(rng, seed), model)
                           EXCEPT !.fit_draws = Some(0)]
             /\ call' = [NoStep EXCEPT !.op = "fit",
                                       !.random_seed = random_seed,
                                       !.rng = rng]
    /\ batch' = batch
    /\ UNCHANGED svars

\* The loader hands the next batch to the step, once the step before it
\* has returned.  fit and predict refuse a store that lacks a static
\* feature the model names.
LoadBatch ==
    /\ model # NoModel
    /\ batch = NoBatch
    /\ \E T \in 1..MaxT : \E B \in 1..MaxBatch : \E lens \in [1..B -> 1..T] :
       \E hole \in 0..T : \E withStatic \in BOOLEAN :
         /\ model.stat_exog_list # <<>> => withStatic
         /\ batch' = Collate(T, lens, hole, withStatic)
    /\ call' = [NoStep EXCEPT !.op = "load"]
    /\ UNCHANGED <<model, rng, heap, bufs, prov, last>>

\* self._normalization(batch, val_size=self.val_size, test_size=self.test_size).
Normalization ==
    /\ batch # NoBatch
    /\ ~batch.normalized
    /\ LET r == Normalize(model, batch, model.val_size, model.test_size)
       IN  /\ batch' = r.batch
           /\ call' = [NoStep EXCEPT !.op = "normalization", !.before = batch,
                                     !.mask = r.mask]
    /\ UNCHANGED <<model, rng, heap, bufs, prov, last>>

\* self._create_windows(batch, step): the call and what it leaves.
CreateWindowsCall(step) ==
    /\ batch # NoBatch
    /\ Draws(model, batch, step) => rng.draws < MaxDraws
    /\ \E start \in 0..MaxT :
       \E r \in {CreateWindows(model, batch, step, start)} :
             /\ start \in r.choices
             /\ call' = [NoStep EXCEPT !.op = "create_windows_" \o step,
                                       !.out = r.out, !.before = batch,
                                       !.windows = r.windows,
                                       !.min_time_stamp = r.min_time_stamp,
                                       !.start = start,
                                       !.n_windows = r.n_windows,
                                       !.choices = r.choices,
                                       !.dict = r.dict,
                                       !.rng = rng,
                                       !.drew = Draws(model, batch, step)]
    /\ rng' = IF Draws(model, batch, step) THEN NumpyDraw(rng) ELSE rng
    /\ UNCHANGED <<model, batch, heap, bufs, prov, last>>

\* self._create_windows(batch, step="train").
CreateWindowsTrain == CreateWindowsCall("train")

\* self._create_windows(batch, step="val").
CreateWindowsVal == CreateWindowsCall("val")

\* self._create_windows(batch, step="predict").
CreateWindowsPredict == CreateWindowsCall("predict")

\* ------------------------------------------------------ _parse_windows
\* window[..., :-h], the history of a window.  InsampleWhole forgets to cut.
InsampleWhole(window, h) == window

Insample(window, h) == PySlice(window, 0, -h)

\* window[..., -h:], the future of a window.
Outsample(window, h) == PySlice(window, -h, Len(window))

\* The whole window, as futr_exog takes it.
Whole(window, h) == window

\* The slice of a window that a tensor of _parse_windows takes.
Cut(part, window, h) ==
    CASE part = "insample" -> Insample(window, h)
      [] part = "outsample" -> Outsample(window, h)
      [] OTHER -> Whole(window, h)

\* All windows of one channel cut the same way: [item][window][k].
Channel(temporal, idx, part, h) ==
    [b \in DOMAIN temporal |->
        [w \in DOMAIN temporal[b][idx] |-> Cut(part, temporal[b][idx][w], h)]]

\* All windows of the channels idxs: [item][channel][window][k].
Channels(temporal, idxs, part, h) ==
    [b \in DOMAIN temporal |-> [c \in DOMAIN idxs |->
        [w \in DOMAIN temporal[b][idxs[c]] |->
            Cut(part, temporal[b][idxs[c]][w], h)]]]

NoParsed == [out |-> "ok", insample_y |-> <<>>, insample_mask |-> <<>>,
             outsample_y |-> <<>>, outsample_mask |-> <<>>,
             hist_exog |-> None, futr_exog |-> None, stat_exog |-> None]

\* _parse_windows(batch, windows), windows being the dict _create_windows
\* returned: [temporal, temporal_cols, static, static_cols].  A model with
\* static names fails on a window batch without static columns.
ParseWindows(m, bt, windows) ==
    LET y_idx == GetLoc(bt.temporal_cols, "y")
        mask_idx == GetLoc(bt.temporal_cols, "available_mask")
    IN  IF Len(m.stat_exog_list) > 0 /\ windows.static_cols = None
        THEN [NoParsed EXCEPT !.out = "AttributeError"]
        ELSE
        [out |-> "ok",
         insample_y |-> Channel(windows.temporal, y_idx, "insample", m.h),
         insample_mask |-> Channel(windows.temporal, mask_idx, "insample", m.h),
         outsample_y |-> Channel(windows.temporal, y_idx, "outsample", m.h),
         outsample_mask |->
             Channel(windows.temporal, mask_idx, "outsample", m.h),
         hist_exog |->
             IF Len(m.hist_exog_list) > 0
             THEN Some(Channels(windows.temporal,
                                GetIndexer(windows.temporal_cols,
                                           m.hist_exog_list),
                                "insample", m.h))
             ELSE None,
         futr_exog |->
             IF Len(m.futr_exog_list) > 0
             THEN Some(Channels(windows.temporal,
                                GetIndexer(windows.temporal_cols,
                                           m.futr_exog_list),
                                "whole", m.h))
             ELSE None,
         stat_exog |->
             IF Len(m.stat_exog_list) > 0
             THEN LET static_idx == GetIndexer(windows.static_cols[1],
                                               m.stat_exog_list)
                  IN  Some([b \in DOMAIN windows.static[1] |->
                              [c \in DOMAIN static_idx |->
                                  windows.static[1][b][static_idx[c]]]])
             ELSE None]

\* The dict _create_windows returned, as the last call recorded it.
WindowsOf(c) ==
    [temporal |-> c.windows, temporal_cols |-> c.dict.temporal_cols,
     static |-> c.dict.static, static_cols |-> c.dict.static_cols]

\* self._parse_windows(batch, windows) on the windows just created.
ParseWindowsCall ==
    /\ batch # NoBatch
    /\ call.op \in {"create_windows_train", "create_windows_val",
                    "create_windows_predict"}
    /\ call.out = "ok"
    /\ LET r == ParseWindows(model, batch, WindowsOf(call))
       IN  call' = [call EXCEPT !.op = "parse_windows", !.out = r.out,
                                !.parsed = r]
    /\ UNCHANGED <<model, batch, rng, heap, bufs, prov, last>>

\* ------------------------------------------- training and validation
\* The external model's prediction for each window, named by the history
\* the window shows it: [item][window].
Forward(p) == p.insample_y

\* What the external loss may return.
LossValues == {"nan", "finite"}

\* torch.isnan(loss): the step raises.  LossIsFatalNever lets NaN through.
LossIsFatalNever(value) == FALSE

LossIsFatal(value) == value = "nan"

\* x[:, -val_windows:-1] on [item][window]: the windows before the last.
Retain(x, val_windows) ==
    [b \in DOMAIN x |-> PySlice(x[b], -val_windows, -1)]

\* The windows of a step, parsed: the outcome of _create_windows followed,
\* when it returns, by _parse_windows.
Parsed(m, bt, w) ==
    IF w.out = "ok"
    THEN ParseWindows(m, bt, [temporal |-> w.windows,
                              temporal_cols |-> w.dict.temporal_cols,
                              static |-> w.dict.static,
                              static_cols |-> w.dict.static_cols])
    ELSE [NoParsed EXCEPT !.out = w.out]

\* training_step(batch, batch_idx) during a fit: the batch is normalized in
\* place, its train windows are created and parsed, the model and the loss
\* are evaluated, and a NaN loss raises (a TypeError from the diagnostics
\* when the output is the list of a distribution loss); otherwise the loss
\* is appended to train_trajectories and returned.
TrainingStep ==
    /\ batch # NoBatch
    /\ ~batch.normalized
    /\ rng.fit_draws # None
    /\ Len(model.train_trajectories) < MaxTraj
    /\ \E n \in {Normalize(model, batch, model.val_size, model.test_size)} :
       \E drew \in {Draws(model, n.batch, "train")} :
           /\ drew => rng.draws < MaxDraws
           /\ batch' = n.batch
           /\ rng' = IF drew THEN NumpyDraw(rng) ELSE rng
           /\ \E start \in 0..MaxT : \E value \in LossValues :
              \E w \in {CreateWindows(model, n.batch, "train", start)} :
              \E p \in {Parsed(model, n.batch, w)} :
                LET fatal == LossIsFatal(value)
                    base == [NoStep EXCEPT !.op = "training_step",
                                           !.before = batch, !.mask = n.mask,
                                           !.windows = w.windows,
                                           !.min_time_stamp = w.min_time_stamp,
                                           !.start = start,
                                           !.n_windows = w.n_windows,
                                           !.choices = w.choices,
                                           !.dict = w.dict,
                                           !.rng = rng, !.drew = drew]
                IN  /\ start \in w.choices
                    /\ p.out # "ok" => value = "finite"
                    /\ call' =
                         IF p.out # "ok" THEN [base EXCEPT !.out = p.out]
                         ELSE [base EXCEPT
                                 !.parsed = p,
                                 !.loss = [value |-> value,
                                           y |-> p.outsample_y,
                                           mask |-> p.outsample_mask,
                                           y_hat |-> Forward(p)],
                                 !.out = IF ~fatal THEN "ok"
                                         ELSE IF model.distribution
                                         THEN "TypeError"
                                         ELSE "Exception: Loss is NaN",
                                 !.returned = IF fatal THEN None
                                              ELSE Some(value)]
                    /\ model' =
                         IF p.out # "ok" \/ fatal THEN model
                         ELSE [model EXCEPT
                                 !.train_trajectories = Append(@, value)]
    /\ UNCHANGED svars

\* validation_step(batch, batch_idx) during a fit: returns NaN at once when
\* val_size is 0; otherwise the batch is normalized in place, its val
\* windows are created and parsed, the targets, masks and predictions of
\* the windows [-val_windows:-1] go to the validation loss, a NaN loss
\* raises, and any other is appended to validation_step_outputs and
\* returned.
ValidationStep ==
    /\ batch # NoBatch
    /\ ~batch.normalized
    /\ rng.fit_draws # None
    /\ Len(model.validation_step_outputs) < MaxTraj
    /\ IF model.val_size = 0
       THEN /\ batch' = batch
            /\ model' = model
            /\ call' = [NoStep EXCEPT !.op = "validation_step",
                                      !.before = batch,
                                      !.returned = Some("nan")]
       ELSE \E n \in {Normalize(model, batch, model.val_size,
                                 model.test_size)} :
            \E w \in {CreateWindows(model, n.batch, "val", 0)} :
            \E p \in {Parsed(model, n.batch, w)} :
            LET val_windows == model.val_size + 1
                base == [NoStep EXCEPT !.op = "validation_step",
                                       !.before = batch, !.mask = n.mask,
                                       !.windows = w.windows,
                                       !.n_windows = w.n_windows,
                                       !.dict = w.dict, !.rng = rng]
            IN  /\ batch' = n.batch
                /\ \E value \in LossValues :
                     LET fatal == LossIsFatal(value)
                     IN  /\ p.out # "ok" => value = "finite"
                         /\ call' =
                              IF p.out # "ok" THEN [base EXCEPT !.out = p.out]
                              ELSE [base EXCEPT
                                      !.parsed = p,
                                      !.loss =
                                          [value |-> value,
                                           y |-> Retain(p.outsample_y,
                                                        val_windows),
                                           mask |-> Retain(p.outsample_mask,
                                                           val_windows),
                                           y_hat |-> Retain(Forward(p),
                                                            val_windows)],
                                      !.out = IF fatal
                                              THEN "Exception: Loss is NaN"
                                              ELSE "ok",
                                      !.returned = IF fatal THEN None
                                                   ELSE Some(value)]
                         /\ model' =
                              IF p.out # "ok" \/ fatal THEN model
                              ELSE [model EXCEPT
                                      !.validation_step_outputs =
                                          Append(@, value)]
    /\ UNCHANGED <<rng, heap, bufs, prov, last>>

\* The step returns and its batch goes out of scope.
StepReturns ==
    /\ batch # NoBatch
    /\ batch' = NoBatch
    /\ call' = [NoStep EXCEPT !.op = "return"]
    /\ UNCHANGED <<model, rng, heap, bufs, prov, last>>

\* ------------------------------------------- on_validation_epoch_end
\* torch.stack(outputs).mean(): the mean, kept as a term over the losses
\* it is taken of.  MeanOfLast takes it of the last loss alone.
MeanOfLast(outputs) == <<"mean", <<outputs[Len(outputs)]>> >>

Mean(outputs) == <<"mean", outputs>>

\* on_validation_epoch_end(), called by the trainer between steps, with
\* the trainer's global_step.  Without validation it returns at once; the
\* stack of an empty list raises; otherwise one entry is appended to
\* valid_trajectories and validation_step_outputs is cleared.
OnValidationEpochEnd ==
    /\ model # NoModel
    /\ batch = NoBatch
    /\ rng.fit_draws # None
    /\ Len(model.valid_trajectories) < MaxEpochs
    /\ LET base == [NoStep EXCEPT !.op = "on_validation_epoch_end"]
       IN  IF model.val_size = 0
           THEN /\ model' = model
                /\ call' = base
           ELSE IF model.validation_step_outputs = <<>>
           THEN /\ model' = model
                /\ call' = [base EXCEPT !.out = "RuntimeError"]
           ELSE \E global_step \in 0..MaxTraj :
                /\ model' =
                     [model EXCEPT
                        !.valid_trajectories =
                            Append(@, <<global_step,
                                        Mean(model.validation_step_outputs)>>),
                        !.validation_step_outputs = <<>>]
                /\ call' = [base EXCEPT !.global_step = global_step]
    /\ UNCHANGED <<batch, rng, heap, bufs, prov, last>>

\* ------------------------------------------------------------ predict
\* set_test_size(test_size).
SetTestSize ==
    /\ model # NoModel
    /\ batch = NoBatch
    /\ \E test_size \in 0..MaxTestSize :
         /\ test_size # model.test_size
         /\ model' = [model EXCEPT !.test_size = test_size]
    /\ call' = [NoStep EXCEPT !.op = "set_test_size"]
    /\ UNCHANGED <<batch, rng, heap, bufs, prov, last>>

\* The output of the network for the parsed windows of a batch, after the
\* inverse normalization: [item][window][step of the horizon][output].
\* Each entry is tagged with its position and the history of its window.
Forecast(m, p) ==
    [b \in DOMAIN Forward(p) |->
        [w \in DOMAIN Forward(p)[b] |->
            [k \in 1..m.h |->
                [o \in DOMAIN m.output_names |->
                    <<b, w, Forward(p)[b][w][1], k, o>>]]]]

\* predict_step(batch, batch_idx): y_hat, or the error raised on the way.
PredictStep(m, bt) ==
    LET n == Normalize(m, bt, 0, m.test_size)
        p == Parsed(m, n.batch, CreateWindows(m, n.batch, "predict", 0))
    IN  IF p.out = "ok" THEN [out |-> "ok", y_hat |-> Forecast(m, p)]
        ELSE [out |-> p.out, y_hat |-> <<>>]

\* fcst[:, -(1 + test_size - h):, :] when test_size > 0, fcst[:, -1:, :]
\* otherwise: the windows of every item of one predict_step output that
\* predict keeps.
RemoveWarmup(m, fcst) ==
    LET first == IF m.test_size > 0 THEN -(1 + m.test_size - m.h) ELSE -1
    IN  [b \in DOMAIN fcst |-> PySlice(fcst[b], first, Len(fcst[b]))]

\* torch.vstack: the outputs of the batches stacked along the items.
VStack(fcsts) == Flatten(fcsts)

\* numpy's flatten of [item][window][step][output], in C order.
FlattenForecasts(x) ==
    Flatten([b \in DOMAIN x |->
        Flatten([w \in DOMAIN x[b] |-> Flatten(x[b][w])])])

\* reshape(-1, cols).
Reshape(flat, cols) ==
    [r \in 1..(Len(flat) \div cols) |->
        SubSeq(flat, (r - 1) * cols + 1, r * cols)]

\* The batches the data module makes of a store of series of width T: a
\* first batch of the given lengths and, when second is not None, a last
\* batch of one series.
PredictBatches(T, lens, second) ==
    <<Collate(T, lens, 0, FALSE)>> \o
    (IF second = None THEN <<>> ELSE <<Collate(T, <<second[1]>>, 0, FALSE)>>)

\* predict(dataset, step_size, random_seed) between steps: the exogenous
\* names are all columns of the store, torch is seeded, a step_size above 1
\* is refused, the trainer runs predict_step on every batch, and the warm-up
\* windows are cut before the forecasts are flattened into rows.
Predict ==
    /\ model # NoModel
    /\ batch = NoBatch
    /\ call.op # "predict"
    /\ \E T \in 1..MaxT : \E B \in 1..MaxBatch : \E lens \in [1..B -> 1..T] :
       \E second \in {None} \cup {Some(len) : len \in 1..T} :
       \E batches \in {PredictBatches(T, lens, second)} :
       \E steps \in {[i \in DOMAIN batches |->
                        PredictStep(model, batches[i])]} :
       \E random_seed \in {None} \cup {Some(sd) : sd \in Seeds} :
       \E step_size \in 1..2 :
         LET seed == IF random_seed = None THEN model.random_seed
                     ELSE random_seed[1]
             base == [NoStep EXCEPT !.op = "predict",
                                    !.random_seed = random_seed]
             failed == {i \in DOMAIN steps : steps[i].out # "ok"}
             fcsts == [i \in DOMAIN steps |-> steps[i].y_hat]
             kept == [i \in DOMAIN steps |-> RemoveWarmup(model, fcsts[i])]
         IN  /\ rng' = TorchManualSeed(rng, seed)
             /\ call' =
                  IF step_size > 1
                  THEN [base EXCEPT !.out = "Exception: step_size"]
                  ELSE IF failed # {}
                  THEN [base EXCEPT
                          !.out = steps[CHOOSE i \in failed :
                                          \A j \in failed : i <= j].out]
                  ELSE [base EXCEPT
                          !.fcsts = fcsts,
                          !.returned =
                              Some(Reshape(FlattenForecasts(VStack(kept)),
                                           Len(model.output_names)))]
    /\ UNCHANGED <<model, batch, heap, bufs, prov, last>>

\* predict has returned its rows to the caller.
PredictReturns ==
    /\ call.op = "predict"
    /\ call' = [NoStep EXCEPT !.op = "return"]
    /\ UNCHANGED <<model, batch, rng, heap, bufs, prov, last>>

\* The model of the normalisation claims: any exogenous configuration.
InitNorm ==
    /\ NoStores
    /\ \E hist \in {<<>>, <<"x1">>} : model = Constructed(1, -1, hist)
    /\ batch = NoBatch
    /\ call = NoStep
    /\ rng = SeedEverything(model.random_seed)

NextNorm == Fit \/ LoadBatch \/ Normalization \/ StepReturns

SpecNorm == InitNorm /\ [][NextNorm]_vars

\* The model of the training windows: any horizon and input_size.
InitTrain ==
    /\ NoStores
    /\ \E h \in 1..MaxH : \E input_size \in InputSizes :
         model = Constructed(h, input_size, <<>>)
    /\ batch = NoBatch
    /\ call = NoStep
    /\ rng = SeedEverything(model.random_seed)

NextTrain ==
    Fit \/ LoadBatch \/ Normalization \/ CreateWindowsTrain \/ StepReturns

SpecTrain == InitTrain /\ [][NextTrain]_vars

\* The model of the validation and prediction windows: any horizon, any
\* limit at inference, with or without a future exogenous channel.
InitInfer ==
    /\ NoStores
    /\ \E h \in 1..MaxH : \E inference_input_size \in InputSizes :
       \E futr \in {<<>>, <<"x1">>} :
         model = Construct(h, -1, inference_input_size, <<>>, futr, <<>>,
                           1, FALSE)
    /\ batch = NoBatch
    /\ call = NoStep
    /\ rng = SeedEverything(model.random_seed)

NextInfer ==
    \/ Fit \/ LoadBatch \/ Normalization
    \/ CreateWindowsVal \/ CreateWindowsPredict \/ StepReturns

SpecInfer == InitInfer /\ [][NextInfer]_vars

\* The model of the window parser: any horizon and any exogenous names.
InitParse ==
    /\ NoStores
    /\ \E h \in 1..MaxH : \E hist \in {<<>>, <<"x1">>} :
       \E futr \in {<<>>, <<"x1">>} : \E stat \in {<<>>, <<"s1">>} :
         model = Construct(h, -1, -1, hist, futr, stat, 1, FALSE)
    /\ batch = NoBatch
    /\ call = NoStep
    /\ rng = SeedEverything(model.random_seed)

NextParse ==
    LoadBatch \/ Normalization \/ CreateWindowsTrain \/ ParseWindowsCall
        \/ StepReturns

SpecParse == InitParse /\ [][NextParse]_vars

\* The model of the validation step: any horizon and limit at inference.
InitVal ==
    /\ NoStores
    /\ \E h \in 1..MaxH : \E inference_input_size \in InputSizes :
         model = Construct(h, -1, inference_input_size, <<>>, <<>>, <<>>,
                           1, FALSE)
    /\ batch = NoBatch
    /\ call = NoStep
    /\ rng = SeedEverything(model.random_seed)

NextVal == Fit \/ LoadBatch \/ ValidationStep \/ StepReturns

SpecVal == InitVal /\ [][NextVal]_vars

\* The model of the losses: either kind of loss, train and validation steps.
InitLoss ==
    /\ NoStores
    /\ \E distribution \in BOOLEAN :
         model = Construct(1, -1, -1, <<>>, <<>>, <<>>, 1, distribution)
    /\ batch = NoBatch
    /\ call = NoStep
    /\ rng = SeedEverything(model.random_seed)

NextLoss ==
    Fit \/ LoadBatch \/ TrainingStep \/ ValidationStep \/ StepReturns

SpecLoss == InitLoss /\ [][NextLoss]_vars

\* The model of the seeds: a model that sub-samples its train windows,
\* constructed with any seed and fitted with any.
InitFit ==
    /\ NoStores
    /\ \E random_seed \in Seeds :
         model = Construct(1, 1, -1, <<>>, <<>>, <<>>, random_seed, FALSE)
    /\ batch = NoBatch
    /\ call = NoStep
    /\ rng = SeedEverything(model.random_seed)

NextFit == Fit \/ LoadBatch \/ TrainingStep \/ StepReturns

SpecFit == InitFit /\ [][NextFit]_vars

\* The model of the validation epochs: validation steps and the ends of
\* validation epochs, in any order the trainer or a caller may make.
InitEpoch ==
    /\ NoStores
    /\ model = Construct(1, -1, -1, <<>>, <<>>, <<>>, 1, FALSE)
    /\ batch = NoBatch
    /\ call = NoStep
    /\ rng = SeedEverything(model.random_seed)

NextEpoch ==
    \/ Fit \/ LoadBatch \/ ValidationStep \/ OnValidationEpochEnd
    \/ StepReturns

SpecEpoch == InitEpoch /\ [][NextEpoch]_vars

\* The model of predict: any horizon, inference limit, future exogenous
\* names and number of outputs of the loss.
InitPredict ==
    /\ NoStores
    /\ \E h \in 1..MaxH : \E inference_input_size \in InputSizes :
       \E futr \in {<<>>, <<"x1">>} :
       \E output_names \in {<<"">>, <<"-lo", "-hi">>} :
         model = [Construct(h, -1, inference_input_size, <<>>, futr, <<>>,
                            1, FALSE)
                     EXCEPT !.output_names = output_names]
    /\ batch = NoBatch
    /\ call = NoStep
    /\ rng = SeedEverything(model.random_seed)

NextPredict == SetTestSize \/ Predict \/ PredictReturns

SpecPredict == InitPredict /\ [][NextPredict]_vars

\* ------------------------------------------------------------ C9, C10
MaskLoc == GetLoc(batch_cols, "available_mask")
DataLocs(m) == {GetLoc(batch_cols, "y")} \cup
               {c \in DOMAIN batch_cols :
                   \E k \in DOMAIN (m.hist_exog_list \o m.futr_exog_list) :
                       (m.hist_exog_list \o m.futr_exog_list)[k] = batch_cols[c]}

\* C9: when val_size + test_size > 0, the mask _normalization gives the
\* scaler is zero at the last val_size + test_size steps and the batch's
\* available_mask at every earlier step, so the statistics of a channel are
\* those of its steps before the held-out ones; the transformation is
\* applied to every step of the data channels, held-out steps included, and
\* the available_mask channel of the batch and the channels that are not
\* data channels are left as they were.
C9_HeldOutStepsMaskedFromScaler ==
    (call.op = "normalization" /\ model.val_size + model.test_size > 0) =>
        LET before == call.before.temporal
            T == Width(before)
            c == model.val_size + model.test_size
        IN  \A b \in DOMAIN before :
              /\ \A t \in 1..T :
                   call.mask[b][t] =
                       IF t > T - c THEN 0 ELSE before[b][MaskLoc][t]
              /\ \A ch \in DOMAIN before[b] :
                   IF ch \in DataLocs(model)
                   THEN /\ \A t \in 1..T :
                             batch.temporal[b][ch][t] = before[b][ch][t]
                                 - Location(before[b][ch], call.mask[b])
                        /\ Location(before[b][ch], call.mask[b]) =
                               Location(PySlice(before[b][ch], 0, -c),
                                        PySlice(before[b][MaskLoc], 0, -c))
                   ELSE batch.temporal[b][ch] = before[b][ch]

\* A batch of four steps with an exogenous channel, a missing observation
\* before the held-out steps, and one validation and one test step.
C9_Witness ==
    /\ call.op = "normalization"
    /\ model.val_size = 1 /\ model.test_size = 1
    /\ model.hist_exog_list = <<"x1">>
    /\ Len(call.before.temporal) = 2
    /\ Width(call.before.temporal) = 4
    /\ call.before.temporal[1][MaskLoc] = <<1, 0, 1, 1>>
    /\ call.mask[1] = <<1, 0, 0, 0>>
    /\ batch.temporal[1][MaskLoc] = <<1, 0, 1, 1>>
    /\ batch.temporal[1][GetLoc(batch_cols, "y")] # call.before.temporal[1][GetLoc(batch_cols, "y")]

\* C10: _create_windows(step="train") without sub-sampling drops the last
\* val_size + test_size steps, pads h zeros on the right, starts at the
\* earliest step m of the kept ones at which every item of the batch has
\* available_mask 1, and returns T - c - m windows of 1 + h steps, window w
\* holding the padded steps m + w .. m + w + h.
C10_TrainWindowsFromFirstCommonStep ==
    (call.op = "create_windows_train" /\ model.input_size <= 0) =>
        LET before == call.before.temporal
            T == Width(before)
            c == model.val_size + model.test_size
            h == model.h
            kept == IF T > c THEN T - c ELSE 0
            common == {t \in 0..(kept - 1) :
                          \A b \in DOMAIN before : before[b][MaskLoc][t + 1] = 1}
            PaddedAt(b, ch, t) == IF t < kept THEN before[b][ch][t + 1] ELSE 0
        IN  common # {} =>
              /\ call.out = "ok"
              /\ call.min_time_stamp = MinSet(common)
              /\ \A b \in DOMAIN before : \A ch \in DOMAIN before[b] :
                   /\ Len(call.windows[b][ch]) = T - c - call.min_time_stamp
                   /\ \A w \in 0..(T - c - call.min_time_stamp - 1) :
                        call.windows[b][ch][w + 1] =
                            [k \in 1..(1 + h) |->
                                PaddedAt(b, ch, call.min_time_stamp + w + k - 1)]

\* Two series of lengths 2 and 4 in a batch of width 4, h = 2, nothing held
\* out: the windows start at step 2 and there are two of them, the last one
\* ending in the padding.
C10_Witness ==
    /\ call.op = "create_windows_train" /\ call.out = "ok"
    /\ model.input_size <= 0 /\ model.h = 2
    /\ model.val_size + model.test_size = 0
    /\ Len(call.before.temporal) = 2
    /\ call.before.temporal[1][MaskLoc] = <<0, 0, 1, 1>>
    /\ call.before.temporal[2][MaskLoc] = <<1, 1, 1, 1>>
    /\ call.min_time_stamp = 2
    /\ Len(call.windows[1][1]) = 2
    /\ call.windows[2][GetLoc(batch_cols, "y")] = <<<<23, 24, 0>>, <<24, 0, 0>>>>

\* ----------------------------------------------------------- C11, C12
\* The steps of a train batch that are not held out, and those of them at
\* which every item is available (0-based).
KeptSteps(m, temporal) ==
    IF Width(temporal) > m.val_size + m.test_size
    THEN Width(temporal) - m.val_size - m.test_size ELSE 0
CommonSteps(m, temporal) ==
    {t \in 0..(KeptSteps(m, temporal) - 1) :
        \A b \in DOMAIN temporal : temporal[b][MaskLoc][t + 1] # 0}
\* The steps left after dropping the held-out tail, padding h steps on the
\* right and cutting at the first commonly available step: none when there
\* is no such step.
RemainingSteps(m, temporal) ==
    IF CommonSteps(m, temporal) = {} THEN 0
    ELSE KeptSteps(m, temporal) + m.h - MinSet(CommonSteps(m, temporal))

\* C11: _create_windows(step="train") fails with the "Time series too
\* short" error, and returns no window batch, whenever fewer than 1 + h
\* steps remain after dropping the held-out tail, right-padding and warm-up
\* truncation, in particular when the batch has no commonly available
\* history.
C11_TooShortIsInsufficientHistory ==
    (call.op = "create_windows_train"
        /\ RemainingSteps(model, call.before.temporal) < 1 + model.h) =>
        (call.out = "Exception: too short" /\ call.windows = <<>>)

\* The train windows before any sub-sampling: window w (0-based) of channel
\* ch of item b holds the padded steps m + w .. m + w + h of the kept ones.
TrainWindow(m, temporal, b, ch, w) ==
    [k \in 1..(1 + m.h) |->
        LET t == MinSet(CommonSteps(m, temporal)) + w + k - 1
        IN  IF t < KeptSteps(m, temporal) THEN temporal[b][ch][t + 1] ELSE 0]
TrainWindowCount(m, temporal) ==
    KeptSteps(m, temporal) - MinSet(CommonSteps(m, temporal))

\* C12: with input_size > 0 and n_windows > input_size the train windows
\* returned are the input_size consecutive windows start .. start +
\* input_size - 1 of the full sequence, in order, start being drawn from
\* exactly {0, ..., n_windows - input_size}; otherwise every window is
\* returned unchanged.
C12_SubRangeIsContiguousFromStart ==
    (call.op = "create_windows_train" /\ call.out = "ok") =>
        LET before == call.before.temporal
            n_windows == TrainWindowCount(model, before)
        IN  /\ call.n_windows = n_windows
            /\ IF model.input_size > 0 /\ n_windows > model.input_size
               THEN /\ call.choices = 0..(n_windows - model.input_size)
                    /\ call.start \in call.choices
                    /\ \A b \in DOMAIN before : \A ch \in DOMAIN before[b] :
                         call.windows[b][ch] =
                             [i \in 1..model.input_size |->
                                 TrainWindow(model, before, b, ch,
                                             call.start + i - 1)]
               ELSE \A b \in DOMAIN before : \A ch \in DOMAIN before[b] :
                         call.windows[b][ch] =
                             [i \in 1..n_windows |->
                                 TrainWindow(model, before, b, ch, i - 1)]

\* Four windows, input_size 2, and the draw gave the last possible start.
C12_Witness ==
    /\ call.op = "create_windows_train" /\ call.out = "ok"
    /\ model.input_size = 2 /\ model.h = 1
    /\ call.n_windows = 4
    /\ call.choices = {0, 1, 2}
    /\ call.start = 2
    /\ Len(call.before.temporal) = 1
    /\ call.windows[1][GetLoc(batch_cols, "y")] = <<<<13, 14>>, <<14, 0>>>>

\* ------------------------------------------------------- C14, C15, C16
\* Step t (0-based) of a channel whose first kept steps are followed by the
\* zeros of the right padding.
PaddedStep(x, kept, t) == IF t < kept THEN x[t + 1] ELSE 0
\* Window w (0-based) of width 1 + h over the padded channel.
PaddedWindow(x, kept, w, h) ==
    [k \in 1..(1 + h) |-> PaddedStep(x, kept, w + k - 1)]
\* How many of n windows an inference limit leaves.
KeptWindows(n, inference_input_size, held) ==
    IF inference_input_size > 0 /\ inference_input_size + held < n
    THEN inference_input_size + held ELSE n

\* What C14 says of a call of _create_windows(step="val").
ValWindowsAsClaimed ==
    LET before == call.before.temporal
        T == Width(before)
        n == T - model.test_size
        kept == KeptWindows(n, model.inference_input_size, model.val_size)
    IN  /\ call.out = "ok"
        /\ call.n_windows = n
        /\ \A b \in DOMAIN before : \A ch \in DOMAIN before[b] :
             call.windows[b][ch] =
                 [i \in 1..kept |->
                     PaddedWindow(before[b][ch], n, n - kept + i - 1, model.h)]

\* C14 as stated: on any batch of width T, _create_windows(step="val")
\* drops the last test_size steps, pads h zeros and extracts all T -
\* test_size windows of width 1 + h, keeping only the last
\* inference_input_size + val_size of them (all if fewer) when
\* inference_input_size > 0.
C14_ValWindowsAnyWidth ==
    call.op = "create_windows_val" => ValWindowsAsClaimed

\* C14 as amended: the same on every batch wider than test_size.
C14_ValWindows ==
    (call.op = "create_windows_val"
        /\ Width(call.before.temporal) > model.test_size) =>
        ValWindowsAsClaimed

\* Width 4, one test step, h = 2, inference_input_size 1 and val_size 1:
\* of the three windows the last two are kept.
C14_Witness ==
    /\ call.op = "create_windows_val" /\ call.out = "ok"
    /\ model.test_size = 1 /\ model.val_size = 1 /\ model.h = 2
    /\ model.inference_input_size = 1
    /\ Len(call.before.temporal) = 1
    /\ ~call.before.normalized
    /\ call.n_windows = 3
    /\ call.windows[1][GetLoc(batch_cols, "y")] = <<<<12, 13, 0>>, <<13, 0, 0>>>>

\* C15: with test_size = 0, no future exogenous channel and no limit at
\* inference, _create_windows(step="predict") pads h zeros on the right and
\* returns T windows of width 1 + h, one starting at every step of the
\* batch, in a dict with the temporal_cols, static and static_cols of the
\* batch.
C15_PredictWindowsEveryStep ==
    (call.op = "create_windows_predict" /\ model.test_size = 0
        /\ model.futr_exog_list = <<>> /\ model.inference_input_size <= 0) =>
        LET before == call.before.temporal
            T == Width(before)
        IN  /\ call.out = "ok"
            /\ \A b \in DOMAIN before : \A ch \in DOMAIN before[b] :
                 call.windows[b][ch] =
                     [i \in 1..T |->
                         PaddedWindow(before[b][ch], T, i - 1, model.h)]
            /\ call.dict.temporal_cols = call.before.temporal_cols
            /\ call.dict.static = call.before.static
            /\ call.dict.static_cols = call.before.static_cols

\* A batch of width 4 with static features, h = 2: four windows.
C15_Witness ==
    /\ call.op = "create_windows_predict" /\ call.out = "ok"
    /\ model.test_size = 0 /\ model.futr_exog_list = <<>>
    /\ model.inference_input_size <= 0 /\ model.h = 2
    /\ Len(call.before.temporal) = 2
    /\ ~call.before.normalized
    /\ call.before.static # None
    /\ call.dict.static_cols = Some(static_cols)
    /\ call.windows[2][GetLoc(batch_cols, "y")] =
           <<<<21, 22, 23>>, <<22, 23, 24>>, <<23, 24, 0>>, <<24, 0, 0>>>>

\* C16: whenever the width of the batch equals test_size >= 1,
\* _create_windows(step="predict") pads one zero step on the left and
\* returns at least one full window of width 1 + h, whatever h >= 1.
C16_LeftPadGivesAWindow ==
    (call.op = "create_windows_predict" /\ model.test_size >= 1
        /\ Width(call.before.temporal) = model.test_size) =>
        /\ call.out = "ok"
        /\ \A b \in DOMAIN call.before.temporal :
           \A ch \in DOMAIN call.before.temporal[b] :
             /\ Len(call.windows[b][ch]) >= 1
             /\ Len(call.windows[b][ch][1]) = 1 + model.h
             /\ call.n_windows = 1 + model.test_size - model.h
             /\ call.windows[b][ch][Len(call.windows[b][ch])] =
                    SubSeq(<<0>> \o call.before.temporal[b][ch],
                           1 + model.test_size - model.h,
                           1 + model.test_size)

\* ---------------------------------------------------------------- C17
\* C17: _parse_windows finds y and available_mask by name and returns, for
\* every window of width 1 + h, the entries before the last h (one entry)
\* as history and the last h entries as future target and mask; the
\* historical exogenous channels over the history only, the future
\* exogenous channels over the whole window; and each of hist_exog,
\* futr_exog, stat_exog is None exactly when its list of names is empty.
C17_ParseSplitsHistoryAndFuture ==
    (call.op = "parse_windows" /\ call.out = "ok") =>
        LET W == call.windows
            h == model.h
            p == call.parsed
            yloc == GetLoc(batch_cols, "y")
        IN  /\ \A b \in DOMAIN W : \A w \in DOMAIN W[b][yloc] :
                 /\ Len(W[b][yloc][w]) = 1 + h
                 /\ p.insample_y[b][w] = <<W[b][yloc][w][1]>>
                 /\ p.insample_mask[b][w] = <<W[b][MaskLoc][w][1]>>
                 /\ p.outsample_y[b][w] = SubSeq(W[b][yloc][w], 2, 1 + h)
                 /\ p.outsample_mask[b][w] = SubSeq(W[b][MaskLoc][w], 2, 1 + h)
            /\ (p.hist_exog = None) <=> (model.hist_exog_list = <<>>)
            /\ (p.futr_exog = None) <=> (model.futr_exog_list = <<>>)
            /\ (p.stat_exog = None) <=> (model.stat_exog_list = <<>>)
            /\ p.hist_exog # None =>
                 \A b \in DOMAIN W : \A c \in DOMAIN model.hist_exog_list :
                 \A w \in DOMAIN W[b][yloc] :
                     p.hist_exog[1][b][c][w] =
                         <<W[b][GetLoc(batch_cols, model.hist_exog_list[c])][w][1]>>
            /\ p.futr_exog # None =>
                 \A b \in DOMAIN W : \A c \in DOMAIN model.futr_exog_list :
                 \A w \in DOMAIN W[b][yloc] :
                     p.futr_exog[1][b][c][w] =
                         W[b][GetLoc(batch_cols, model.futr_exog_list[c])][w]
            /\ p.stat_exog # None =>
                 \A b \in DOMAIN W : \A c \in DOMAIN model.stat_exog_list :
                     p.stat_exog[1][b][c] = call.before.static[1][b][c]

\* Windows of a raw batch of width 3 parsed with h = 2 and one name in each
\* of the three lists.
C17_Witness ==
    /\ call.op = "parse_windows" /\ call.out = "ok"
    /\ model.h = 2
    /\ model.hist_exog_list = <<"x1">> /\ model.futr_exog_list = <<"x1">>
    /\ model.stat_exog_list = <<"s1">>
    /\ ~call.before.normalized
    /\ Len(call.windows) = 1
    /\ call.windows[1][GetLoc(batch_cols, "y")] =
           <<<<11, 12, 13>>, <<12, 13, 0>>, <<13, 0, 0>>>>
    /\ call.parsed.insample_y[1] = <<<<11>>, <<12>>, <<13>>>>
    /\ call.parsed.outsample_y[1] = <<<<12, 13>>, <<13, 0>>, <<0, 0>>>>
    /\ call.parsed.hist_exog = Some(<<<<<<<<61>>, <<62>>, <<63>>>>>>>>)
    /\ call.parsed.stat_exog = Some(<<<<901>>>>)

\* ---------------------------------------------------------------- C13
\* C13: in validation_step with val_size >= 1 the targets, masks and
\* predictions given to the validation loss are those of exactly the
\* val_size windows before the final one: the first of them has its
\* targets start at step T - test_size - val_size, its history being the
\* step before, and nothing of the last test_size steps is in any of them
\* (what lies beyond step T - test_size - 1 is padding).
C13_LossSeesValidationWindows ==
    (call.op = "validation_step" /\ model.val_size >= 1
        /\ call.loss.value # "none") =>
        LET normalized == batch.temporal
            yloc == GetLoc(batch_cols, "y")
            kept == Width(normalized) - model.test_size
            first == kept - model.val_size
        IN  \A b \in DOMAIN normalized :
              /\ Len(call.loss.y[b]) = model.val_size
              /\ Len(call.loss.mask[b]) = model.val_size
              /\ Len(call.loss.y_hat[b]) = model.val_size
              /\ \A i \in 1..model.val_size :
                   /\ call.loss.y[b][i] =
                          [k \in 1..model.h |->
                              PaddedStep(normalized[b][yloc], kept,
                                         first + i + k - 2)]
                   /\ call.loss.mask[b][i] =
                          [k \in 1..model.h |->
                              PaddedStep(normalized[b][MaskLoc], kept,
                                         first + i + k - 2)]
                   /\ call.loss.y_hat[b][i] =
                          <<PaddedStep(normalized[b][yloc], kept,
                                       first + i - 2)>>

\* ---------------------------------------------------------------- C18
\* C18: a step whose loss is NaN raises: it returns no loss and appends
\* nothing to train_trajectories or validation_step_outputs.
C18_NaNLossIsFatal ==
    [][(call'.op \in {"training_step", "validation_step"}
          /\ call'.loss.value = "nan") =>
          /\ call'.out # "ok"
          /\ call'.returned = None
          /\ model'.train_trajectories = model.train_trajectories
          /\ model'.validation_step_outputs = model.validation_step_outputs
      ]_vars

\* A training step with a NaN loss after one that succeeded.
C18_Witness ==
    /\ call.op = "training_step"
    /\ call.loss.value = "nan"
    /\ call.out = "Exception: Loss is NaN"
    /\ call.returned = None
    /\ model.train_trajectories = <<"finite">>

\* ----------------------------------------------------------- C19, C20
\* C19: numpy's generator is seeded anew with the model's seed when a fit
\* starts, however many draws were made before, so the k-th sub-range draw
\* of every fit is made in the same state of the generator (seeded with
\* the model's seed, k - 1 draws made) and fits of one model on the same
\* data draw the same starts.
C19_FitReseedsNumpy ==
    /\ call.op = "fit" =>
         (rng.numpy = model.random_seed /\ rng.draws = 0)
    /\ (call.op = "training_step" /\ call.drew) =>
         /\ call.rng.numpy = model.random_seed
         /\ call.rng.fit_draws = Some(call.rng.draws)

\* A fit that starts after two draws of the fit before it.
C19_Witness ==
    /\ call.op = "fit"
    /\ call.rng.fit_draws = Some(MaxDraws)
    /\ call.rng.draws = MaxDraws
    /\ rng.draws = 0
    /\ rng.numpy = model.random_seed

\* C20: a random_seed passed to fit is the seed of torch's and numpy's
\* generators when the first training step of that fit runs.
C20_PassedSeedOverrides ==
    (call.op = "fit" /\ call.random_seed # None) =>
        /\ rng.torch = call.random_seed[1]
        /\ rng.numpy = call.random_seed[1]

\* ---------------------------------------------------------------- C21
\* The items of the predict_step outputs before the i-th.
ItemsBefore(fcsts, i) == SumSeq([j \in 1..(i - 1) |-> Len(fcsts[j])])

\* C21: the rows predict returns are, for every series in the order of the
\* batches, the last 1 + test_size - h windows of its predict_step output
\* when test_size > 0 and its final window when test_size = 0, every window
\* giving h rows of len(output_names) columns, in the order series, window,
\* step of the horizon.
C21_PredictKeepsForecastWindows ==
    (call.op = "predict" /\ call.out = "ok") =>
        LET rows == call.returned[1]
            fcsts == call.fcsts
            keep == IF model.test_size > 0
                    THEN 1 + model.test_size - model.h ELSE 1
        IN  /\ Len(rows) =
                  ItemsBefore(fcsts, Len(fcsts) + 1) * keep * model.h
            /\ \A i \in DOMAIN fcsts : \A b \in DOMAIN fcsts[i] :
               \A j \in 1..keep : \A k \in 1..model.h :
                 LET series == ItemsBefore(fcsts, i) + b
                     row == rows[((series - 1) * keep + (j - 1)) * model.h + k]
                 IN  /\ Len(row) = Len(model.output_names)
                     /\ \A o \in DOMAIN model.output_names :
                          row[o] =
                            fcsts[i][b][Len(fcsts[i][b]) - keep + j][k][o]

\* ---------------------------------------------------------------- C22
\* What one step does to the validation losses.  With validation, a
\* validation step that returns appends the loss it returns and one that
\* raises appends nothing; the end of an epoch appends (global_step, mean of
\* the losses held) to valid_trajectories and empties
\* validation_step_outputs; nothing else touches either list.  Without
\* validation, the step returns NaN and the end of an epoch returns, the
\* lists left as they are.  evenWhenEmpty: the end of an epoch is held to
\* this also when no loss is held.
EpochStepAsClaimed(evenWhenEmpty) ==
    LET outputs == model.validation_step_outputs
        trajectories == model.valid_trajectories
        same == /\ model'.validation_step_outputs = outputs
                /\ model'.valid_trajectories = trajectories
    IN  /\ (call'.op = "validation_step" /\ model.val_size > 0) =>
             /\ model'.valid_trajectories = trajectories
             /\ model'.validation_step_outputs =
                  IF call'.out = "ok" THEN Append(outputs, call'.returned[1])
                  ELSE outputs
        /\ (call'.op = "validation_step" /\ model.val_size = 0) =>
             (call'.returned = Some("nan") /\ same)
        /\ (call'.op = "on_validation_epoch_end" /\ model.val_size > 0
               /\ (evenWhenEmpty \/ outputs # <<>>)) =>
             /\ call'.out = "ok"
             /\ model'.valid_trajectories =
                  Append(trajectories,
                         <<call'.global_step, <<"mean", outputs>> >>)
             /\ model'.validation_step_outputs = <<>>
        /\ (call'.op = "on_validation_epoch_end" /\ model.val_size = 0) =>
             (call'.out = "ok" /\ same)
        /\ call'.op \notin {"validation_step", "on_validation_epoch_end"} =>
             same

\* C22 as stated: over any sequence of validation steps and ends of epochs.
C22_EpochsAnySequence == [][EpochStepAsClaimed(TRUE)]_vars

\* C22, for the ends of epochs that follow a completed validation step:
\* validation_step_outputs holds the losses of the validation steps
\* completed since the last end of an epoch, and every such end of an epoch
\* appends (global_step, their mean) and leaves the list empty.
C22_Epochs == [][EpochStepAsClaimed(FALSE)]_vars

\* The second epoch has ended with the mean of two validation losses.
C22_Witness ==
    /\ call.op = "on_validation_epoch_end"
    /\ model.val_size > 0
    /\ model.validation_step_outputs = <<>>
    /\ Len(model.valid_trajectories) = 2
    /\ model.valid_trajectories[1][2] = <<"mean", <<"finite">> >>
    /\ model.valid_trajectories[2] =
         <<call.global_step, <<"mean", <<"finite", "finite">> >> >>

====
